---- MODULE Spec2Model ----
(***************************************************************************)
(* Model of the invoke_impl attribute macro (src/src/lib.rs).              *)
(*                                                                         *)
(* Three layers are modelled:                                              *)
(*   - the expansion: invoke_impl and its helpers are operators that take  *)
(*     the syntax tree of an impl block and build the syntax trees of the  *)
(*     six invoke functions, the enum and the two constants;               *)
(*   - the expanded code: the statements built by the expansion are run    *)
(*     one call at a time by the actions CallDispatcher, EvalInnerCall,    *)
(*     CallConsumer, NextSelector and Return.                              *)
(*   - the generated enum: CallTryFrom, CallFrom, CallIter and IterNext    *)
(*     run the conversions and iterators that create_enum writes.          *)
(***************************************************************************)
EXTENDS Integers, Sequences, FiniteSets, TLC

VARIABLES
    input,      \* the attribute arguments and the impl block the macro is applied to
    output,     \* result of the expansion: "pending", a panic, or the items produced
    status,     \* of the invoke function being run: idle, running, done, panicked
    callee,     \* the invoke function being run (an item of output.items)
    env,        \* values of the invoke function's parameters, by identifier
    selectors,  \* the sequence the caller passed as invoke_impl_iter
    taken,      \* how many elements have been pulled from invoke_impl_iter since its start
    body,       \* statements being run: the block, or the match arm selected
    ip,         \* index in body of the statement being run
    tmp,        \* value of the inner call already evaluated for the statement
    trace,      \* calls made by the invoke function since invoke_impl_iter started, in order
    err,        \* panic message when status is panicked
    conv,       \* the latest conversions between the enum and &str, oldest first
    iters,      \* the iterators returned by the calls of iter() so far
    cyclic      \* the caller passes its selectors as an iterator that starts over at its end

vars == <<input, output, status, callee, env, selectors, taken, body, ip, tmp, trace, err,
          conv, iters, cyclic>>

(***************************************************************************)
(* Option<T>                                                               *)
(***************************************************************************)
None == <<>>
Some(x) == <<x>>
is_some(o) == Len(o) = 1
unwrap(o) == o[1]

(***************************************************************************)
(* Syntax trees (the parts of syn's types the macro reads or builds).      *)
(***************************************************************************)
ReturnDefault == [rt |-> "Default", ty |-> ""]
ReturnTy(t) == [rt |-> "Type", ty |-> t]

\* fn generate_trailing_return_type: the parse of "-> ()"
generate_trailing_return_type == ReturnTy("()")

Receiver(byRef) ==
    [arg |-> "Receiver", reference |-> byRef, pat |-> "", ident |-> "self",
     ty |-> [kind |-> "path", args |-> <<"Self">>]]
TypedArg(p, id, t) ==
    [arg |-> "Typed", reference |-> FALSE, pat |-> p, ident |-> id, ty |-> t]
PathTy(t) == [kind |-> "path", args |-> <<t>>]
ImplFnMut(ts) == [kind |-> "impl FnMut", args |-> ts]
ImplIterator(t) == [kind |-> "impl Iterator", args |-> <<t>>]

TypeParam(id, bound) == [param |-> "Type", ident |-> id, bounds |-> bound]
LifetimeParam(id) == [param |-> "Lifetime", ident |-> id, bounds |-> ""]

Path(q, id) == [expr |-> "Path", qual |-> q, name |-> id, turbofish |-> <<>>, args |-> <<>>, lit |-> -1]
LitInt(n) == [expr |-> "Lit", qual |-> "", name |-> "", turbofish |-> <<>>, args |-> <<>>, lit |-> n]
Wild == [expr |-> "Wild", qual |-> "", name |-> "_", turbofish |-> <<>>, args |-> <<>>, lit |-> -1]
MethodCall(recv, m, tf, as) ==
    [expr |-> "MethodCall", qual |-> recv, name |-> m, turbofish |-> tf, args |-> as, lit |-> -1]
Call(q, f, tf, as) ==
    [expr |-> "Call", qual |-> q, name |-> f, turbofish |-> tf, args |-> as, lit |-> -1]
PanicMacro(m) == [expr |-> "Macro", name |-> "panic", msg |-> m]

Semi(e) == [stmt |-> "Semi", expr |-> e]
ExprStmt(e) == [stmt |-> "Expr", expr |-> e]
Arm(p, b) == [pat |-> p, body |-> b]
ForLoop(arms) ==
    [expr |-> "ForLoop", pat |-> "invoke_impl_i", iter |-> "invoke_impl_iter", arms |-> arms]

Method(attrs, vis, ident, generics, inputs, out, block) ==
    [item |-> "Method", attrs |-> attrs, vis |-> vis,
     sig |-> [ident |-> ident, generics |-> generics, inputs |-> inputs, output |-> out],
     block |-> block]
ConstItem(vis, ident, ty, value) ==
    [item |-> "Const", vis |-> vis, ident |-> ident, ty |-> ty, value |-> value]

enumerate(s) == [k \in 1..Len(s) |-> [index |-> k - 1, item |-> s[k]]]

InvalidIndexMsg == "Iter contains invalid function index!"
SelfMoveMsg == "invoke_impl cannot be used with methods taking self as move!"

(***************************************************************************)
(* InvokeType and SpecificationType                                        *)
(***************************************************************************)
Specified(st) == [it |-> "Specified", st |-> st]
SpecifiedAll(st) == [it |-> "SpecifiedAll", st |-> st]
Subset == [it |-> "Subset", st |-> ""]
All == [it |-> "All", st |-> ""]

\* the order in which invoke_impl creates and pushes the six functions
InvokeTypes ==
    << All, Subset, SpecifiedAll("Enumerated"), SpecifiedAll("Enum"),
       Specified("Enumerated"), Specified("Enum") >>

(***************************************************************************)
(* Identifiers                                                             *)
(***************************************************************************)
generate_invoke_name(name, invoke_type) ==
    LET base_string ==
            CASE invoke_type.it = "Specified" ->
                    IF invoke_type.st = "Enum" THEN "invoke_enum" ELSE "invoke_enumerated"
              [] invoke_type.it = "SpecifiedAll" ->
                    IF invoke_type.st = "Enum" THEN "invoke_all_enum" ELSE "invoke_all_enumerated"
              [] invoke_type.it = "All" -> "invoke_all"
              [] invoke_type.it = "Subset" -> "invoke_subset"
    IN IF is_some(name) THEN base_string \o "_" \o unwrap(name) ELSE base_string

generate_enum_name(struct_ident, name) ==
    IF is_some(name)
    THEN struct_ident \o "_invoke_impl_enum_" \o unwrap(name)
    ELSE struct_ident \o "_invoke_impl_enum"

(***************************************************************************)
(* Bodies of the six invoke functions                                      *)
(***************************************************************************)
RECURSIVE Flatten(_)
Flatten(ss) == IF ss = <<>> THEN <<>> ELSE Head(ss) \o Flatten(Tail(ss))

\* get_inner_call_expr that always builds the path form Struct::method(...)
get_inner_call_expr_always_path(is_method, method, struct_ident, generic_params, param_ids) ==
    Call(struct_ident, method.sig.ident, generic_params, param_ids)

\* fn get_inner_call_expr
get_inner_call_expr(is_method, method, struct_ident, generic_params, param_ids) ==
    LET method_name == method.sig.ident
    IN IF is_method
       THEN MethodCall("self", method_name, generic_params, param_ids)
       ELSE Call(struct_ident, method_name, generic_params, param_ids)

\* invoke_all_block walking the methods from the last to the first
invoke_all_block_reversed(is_method, output_type, methods, closure_ident, struct_ident, generic_params, param_ids) ==
    [k \in 1..Len(methods) |->
        LET inner_call == get_inner_call_expr(is_method, methods[Len(methods) + 1 - k],
                                              struct_ident, generic_params, param_ids)
        IN IF output_type /= generate_trailing_return_type /\ output_type /= ReturnDefault
           THEN Semi(Call("", closure_ident, <<>>, <<inner_call>>))
           ELSE Semi(inner_call)]

\* fn invoke_all_block
invoke_all_block(is_method, output_type, methods, closure_ident, struct_ident, generic_params, param_ids) ==
    [k \in 1..Len(methods) |->
        LET inner_call == get_inner_call_expr(is_method, methods[k], struct_ident,
                                              generic_params, param_ids)
        IN IF output_type /= generate_trailing_return_type /\ output_type /= ReturnDefault
           THEN Semi(Call("", closure_ident, <<>>, <<inner_call>>))
           ELSE Semi(inner_call)]

\* invoke_some_block with match arms numbered from 1
invoke_some_block_one_based(is_method, output_type, methods, closure_ident, struct_ident, generic_params, param_ids) ==
    LET arms ==
            [k \in 1..Len(methods) |->
                LET index == k
                    inner_call == get_inner_call_expr(is_method, methods[k], struct_ident,
                                                      generic_params, param_ids)
                    outer_call ==
                        IF output_type /= generate_trailing_return_type
                              /\ output_type /= ReturnDefault
                        THEN Call("", closure_ident, <<>>, <<inner_call>>)
                        ELSE inner_call
                IN Arm(LitInt(index), <<ExprStmt(outer_call)>>)]
        default == Arm(Wild, <<ExprStmt(PanicMacro(InvalidIndexMsg))>>)
    IN <<ExprStmt(ForLoop(Append(arms, default)))>>

\* fn invoke_some_block
invoke_some_block(is_method, output_type, methods, closure_ident, struct_ident, generic_params, param_ids) ==
    LET arms ==
            [k \in 1..Len(methods) |->
                LET index == k - 1
                    inner_call == get_inner_call_expr(is_method, methods[k], struct_ident,
                                                      generic_params, param_ids)
                    outer_call ==
                        IF output_type /= generate_trailing_return_type
                              /\ output_type /= ReturnDefault
                        THEN Call("", closure_ident, <<>>, <<inner_call>>)
                        ELSE inner_call
                IN Arm(LitInt(index), <<ExprStmt(outer_call)>>)]
        default == Arm(Wild, <<ExprStmt(PanicMacro(InvalidIndexMsg))>>)
    IN <<ExprStmt(ForLoop(Append(arms, default)))>>

\* invoke_all_enum_block passing a position counted from 1 to the closure
invoke_all_enum_block_one_based(is_method, specification_type, output_type, methods, closure_ident, struct_ident, name, generic_params, param_ids) ==
    LET enum_name == generate_enum_name(struct_ident, name)
        identifiers == [k \in 1..Len(methods) |-> methods[k].sig.ident]
        stmts ==
            [k \in 1..Len(methods) |->
                LET index == k
                    enum_ident == identifiers[k]
                    inner_call == get_inner_call_expr(is_method, methods[k], struct_ident,
                                                      generic_params, param_ids)
                IN IF output_type /= generate_trailing_return_type
                      /\ output_type /= ReturnDefault
                   THEN IF specification_type = "Enum"
                        THEN <<Semi(Call("", closure_ident, <<>>,
                                         <<Path(enum_name, enum_ident), inner_call>>))>>
                        ELSE <<Semi(Call("", closure_ident, <<>>,
                                         <<LitInt(index), inner_call>>))>>
                   ELSE IF specification_type = "Enum"
                        THEN <<Semi(inner_call),
                               Semi(Call("", closure_ident, <<>>,
                                         <<Path(enum_name, enum_ident)>>))>>
                        ELSE <<Semi(inner_call),
                               Semi(Call("", closure_ident, <<>>, <<LitInt(index)>>))>>]
    IN Flatten(stmts)

\* invoke_all_enum_block calling the closure before the method when the
\* methods return nothing
invoke_all_enum_block_consumer_first(is_method, specification_type, output_type, methods, closure_ident, struct_ident, name, generic_params, param_ids) ==
    LET enum_name == generate_enum_name(struct_ident, name)
        identifiers == [k \in 1..Len(methods) |-> methods[k].sig.ident]
        stmts ==
            [k \in 1..Len(methods) |->
                LET index == k - 1
                    enum_ident == identifiers[k]
                    inner_call == get_inner_call_expr(is_method, methods[k], struct_ident,
                                                      generic_params, param_ids)
                IN IF output_type /= generate_trailing_return_type
                      /\ output_type /= ReturnDefault
                   THEN IF specification_type = "Enum"
                        THEN <<Semi(Call("", closure_ident, <<>>,
                                         <<Path(enum_name, enum_ident), inner_call>>))>>
                        ELSE <<Semi(Call("", closure_ident, <<>>,
                                         <<LitInt(index), inner_call>>))>>
                   ELSE IF specification_type = "Enum"
                        THEN <<Semi(Call("", closure_ident, <<>>,
                                         <<Path(enum_name, enum_ident)>>)),
                               Semi(inner_call)>>
                        ELSE <<Semi(Call("", closure_ident, <<>>, <<LitInt(index)>>)),
                               Semi(inner_call)>>]
    IN Flatten(stmts)

\* fn invoke_all_enum_block
invoke_all_enum_block(is_method, specification_type, output_type, methods, closure_ident, struct_ident, name, generic_params, param_ids) ==
    LET enum_name == generate_enum_name(struct_ident, name)
        identifiers == [k \in 1..Len(methods) |-> methods[k].sig.ident]
        stmts ==
            [k \in 1..Len(methods) |->
                LET index == k - 1
                    enum_ident == identifiers[k]
                    inner_call == get_inner_call_expr(is_method, methods[k], struct_ident,
                                                      generic_params, param_ids)
                IN IF output_type /= generate_trailing_return_type
                      /\ output_type /= ReturnDefault
                   THEN IF specification_type = "Enum"
                        THEN <<Semi(Call("", closure_ident, <<>>,
                                         <<Path(enum_name, enum_ident), inner_call>>))>>
                        ELSE <<Semi(Call("", closure_ident, <<>>,
                                         <<LitInt(index), inner_call>>))>>
                   ELSE IF specification_type = "Enum"
                        THEN <<Semi(inner_call),
                               Semi(Call("", closure_ident, <<>>,
                                         <<Path(enum_name, enum_ident)>>))>>
                        ELSE <<Semi(inner_call),
                               Semi(Call("", closure_ident, <<>>, <<LitInt(index)>>))>>]
    IN Flatten(stmts)

\* invoke_enum_block whose default arm does nothing instead of panicking
invoke_enum_block_skip_invalid(is_method, specification_type, output_type, methods, closure_ident, struct_ident, name, generic_params, param_ids) ==
    LET enum_name == generate_enum_name(struct_ident, name)
        identifiers == [k \in 1..Len(methods) |-> methods[k].sig.ident]
        arms ==
            [k \in 1..Len(methods) |->
                LET index == k - 1
                    enum_ident == identifiers[k]
                    inner_call == get_inner_call_expr(is_method, methods[k], struct_ident,
                                                      generic_params, param_ids)
                    outer_call ==
                        IF output_type /= generate_trailing_return_type
                              /\ output_type /= ReturnDefault
                        THEN IF specification_type = "Enum"
                             THEN <<Semi(Call("", closure_ident, <<>>,
                                              <<Path(enum_name, enum_ident), inner_call>>))>>
                             ELSE <<Semi(Call("", closure_ident, <<>>,
                                              <<LitInt(index), inner_call>>))>>
                        ELSE IF specification_type = "Enum"
                             THEN <<Semi(inner_call),
                                    Semi(Call("", closure_ident, <<>>,
                                              <<Path(enum_name, enum_ident)>>))>>
                             ELSE <<Semi(inner_call),
                                    Semi(Call("", closure_ident, <<>>, <<LitInt(index)>>))>>
                IN IF specification_type = "Enum"
                   THEN Arm(Path(enum_name, enum_ident), outer_call)
                   ELSE Arm(LitInt(index), outer_call)]
        with_default ==
            IF specification_type = "Enum" THEN arms ELSE Append(arms, Arm(Wild, <<>>))
    IN <<ExprStmt(ForLoop(with_default))>>

\* fn invoke_enum_block
invoke_enum_block(is_method, specification_type, output_type, methods, closure_ident, struct_ident, name, generic_params, param_ids) ==
    LET enum_name == generate_enum_name(struct_ident, name)
        identifiers == [k \in 1..Len(methods) |-> methods[k].sig.ident]
        arms ==
            [k \in 1..Len(methods) |->
                LET index == k - 1
                    enum_ident == identifiers[k]
                    inner_call == get_inner_call_expr(is_method, methods[k], struct_ident,
                                                      generic_params, param_ids)
                    outer_call ==
                        IF output_type /= generate_trailing_return_type
                              /\ output_type /= ReturnDefault
                        THEN IF specification_type = "Enum"
                             THEN <<Semi(Call("", closure_ident, <<>>,
                                              <<Path(enum_name, enum_ident), inner_call>>))>>
                             ELSE <<Semi(Call("", closure_ident, <<>>,
                                              <<LitInt(index), inner_call>>))>>
                        ELSE IF specification_type = "Enum"
                             THEN <<Semi(inner_call),
                                    Semi(Call("", closure_ident, <<>>,
                                              <<Path(enum_name, enum_ident)>>))>>
                             ELSE <<Semi(inner_call),
                                    Semi(Call("", closure_ident, <<>>, <<LitInt(index)>>))>>
                IN IF specification_type = "Enum"
                   THEN Arm(Path(enum_name, enum_ident), outer_call)
                   ELSE Arm(LitInt(index), outer_call)]
        with_default ==
            IF specification_type = "Enum"
            THEN arms
            ELSE Append(arms, Arm(Wild, <<ExprStmt(PanicMacro(InvalidIndexMsg))>>))
    IN <<ExprStmt(ForLoop(with_default))>>

(***************************************************************************)
(* fn create_invoke_function                                               *)
(***************************************************************************)
Panicked(m) == [panicked |-> TRUE, msg |-> m, item |-> <<>>]
Created(i) == [panicked |-> FALSE, msg |-> "", item |-> <<i>>]

\* the filter_map chain that collects param_ids (and sets is_method)
forwarded_params(inputs, clone) ==
    LET typed == SelectSeq(enumerate(inputs), LAMBDA p : p.item.arg = "Typed")
        idents == SelectSeq(typed, LAMBDA p : p.item.pat = "Ident")
    IN [k \in 1..Len(idents) |->
          LET id == idents[k].item.ident
              index == idents[k].index
          IN IF is_some(clone)
             THEN IF index \in unwrap(clone)
                  THEN MethodCall(id, "clone", <<>>, <<>>)
                  ELSE Path("", id)
             ELSE Path("", id)]

\* consumer_param that takes an explicit "-> ()" for a return type to pass on
consumer_param_unit_as_type(output_type, invoke_type, closure_ident, enum_name) ==
    IF output_type /= ReturnDefault
    THEN LET bxtype == output_type.ty
         IN IF invoke_type.it \in {"Specified", "SpecifiedAll"}
            THEN IF invoke_type.st = "Enum"
                 THEN Some(TypedArg("Ident", closure_ident, ImplFnMut(<<enum_name, bxtype>>)))
                 ELSE Some(TypedArg("Ident", closure_ident, ImplFnMut(<<"usize", bxtype>>)))
            ELSE Some(TypedArg("Ident", closure_ident, ImplFnMut(<<bxtype>>)))
    ELSE IF invoke_type.it \in {"Specified", "SpecifiedAll"}
         THEN IF invoke_type.st = "Enum"
              THEN Some(TypedArg("Ident", closure_ident, ImplFnMut(<<enum_name>>)))
              ELSE Some(TypedArg("Ident", closure_ident, ImplFnMut(<<"usize">>)))
         ELSE None

\* the closure parameter appended to the signature, if any
consumer_param(output_type, invoke_type, closure_ident, enum_name) ==
    IF output_type /= generate_trailing_return_type /\ output_type /= ReturnDefault
    THEN LET bxtype == output_type.ty
         IN IF invoke_type.it \in {"Specified", "SpecifiedAll"}
            THEN IF invoke_type.st = "Enum"
                 THEN Some(TypedArg("Ident", closure_ident, ImplFnMut(<<enum_name, bxtype>>)))
                 ELSE Some(TypedArg("Ident", closure_ident, ImplFnMut(<<"usize", bxtype>>)))
            ELSE Some(TypedArg("Ident", closure_ident, ImplFnMut(<<bxtype>>)))
    ELSE IF invoke_type.it \in {"Specified", "SpecifiedAll"}
         THEN IF invoke_type.st = "Enum"
              THEN Some(TypedArg("Ident", closure_ident, ImplFnMut(<<enum_name>>)))
              ELSE Some(TypedArg("Ident", closure_ident, ImplFnMut(<<"usize">>)))
         ELSE None

\* the iterator parameter appended to the signature, if any
specifier(invoke_type, enum_name) ==
    CASE invoke_type.it = "Specified" ->
            IF invoke_type.st = "Enum"
            THEN Some(TypedArg("Ident", "invoke_impl_iter", ImplIterator(enum_name)))
            ELSE Some(TypedArg("Ident", "invoke_impl_iter", ImplIterator("usize")))
      [] invoke_type.it = "Subset" ->
            Some(TypedArg("Ident", "invoke_impl_iter", ImplIterator("usize")))
      [] OTHER -> None

\* create_invoke_function taking `self` like `&self`: no receiver is refused
create_invoke_function_self_move_allowed(base_method, methods, struct_ident, invoke_type, name, clone) ==
    LET output_type == base_method.sig.output
        invoke_name == generate_invoke_name(name, invoke_type)
        enum_name == generate_enum_name(struct_ident, name)
        inputs == base_method.sig.inputs
        self_by_move == FALSE
        is_method == \E k \in 1..Len(inputs) : inputs[k].arg = "Receiver"
        param_ids == forwarded_params(inputs, clone)
        generic_params ==
            LET tps == SelectSeq(base_method.sig.generics, LAMBDA gp : gp.param = "Type")
            IN [k \in 1..Len(tps) |-> tps[k].ident]
        closure_ident == "consumer"
        invoke_sig ==
            [ident |-> invoke_name,
             generics |-> base_method.sig.generics,
             inputs |-> inputs \o consumer_param(output_type, invoke_type, closure_ident, enum_name)
                              \o specifier(invoke_type, enum_name),
             output |-> ReturnDefault]
        invoke_block ==
            CASE invoke_type.it = "Specified" ->
                    invoke_enum_block(is_method, invoke_type.st, output_type, methods,
                                      closure_ident, struct_ident, name, generic_params,
                                      param_ids)
              [] invoke_type.it = "SpecifiedAll" ->
                    invoke_all_enum_block(is_method, invoke_type.st, output_type, methods,
                                          closure_ident, struct_ident, name, generic_params,
                                          param_ids)
              [] invoke_type.it = "Subset" ->
                    invoke_some_block(is_method, output_type, methods, closure_ident,
                                      struct_ident, generic_params, param_ids)
              [] invoke_type.it = "All" ->
                    invoke_all_block(is_method, output_type, methods, closure_ident,
                                     struct_ident, generic_params, param_ids)
    IN IF self_by_move
       THEN Panicked(SelfMoveMsg)
       ELSE Created([item |-> "Method", attrs |-> base_method.attrs, vis |-> base_method.vis,
                     sig |-> invoke_sig, block |-> invoke_block])

create_invoke_function(base_method, methods, struct_ident, invoke_type, name, clone) ==
    LET output_type == base_method.sig.output
        invoke_name == generate_invoke_name(name, invoke_type)
        enum_name == generate_enum_name(struct_ident, name)
        inputs == base_method.sig.inputs
        self_by_move ==
            \E k \in 1..Len(inputs) : inputs[k].arg = "Receiver" /\ ~inputs[k].reference
        is_method ==
            \E k \in 1..Len(inputs) : inputs[k].arg = "Receiver" /\ inputs[k].reference
        param_ids == forwarded_params(inputs, clone)
        generic_params ==
            LET tps == SelectSeq(base_method.sig.generics, LAMBDA gp : gp.param = "Type")
            IN [k \in 1..Len(tps) |-> tps[k].ident]
        closure_ident == "consumer"
        invoke_sig ==
            [ident |-> invoke_name,
             generics |-> base_method.sig.generics,
             inputs |-> inputs \o consumer_param(output_type, invoke_type, closure_ident, enum_name)
                              \o specifier(invoke_type, enum_name),
             output |-> ReturnDefault]
        invoke_block ==
            CASE invoke_type.it = "Specified" ->
                    invoke_enum_block(is_method, invoke_type.st, output_type, methods,
                                      closure_ident, struct_ident, name, generic_params,
                                      param_ids)
              [] invoke_type.it = "SpecifiedAll" ->
                    invoke_all_enum_block(is_method, invoke_type.st, output_type, methods,
                                          closure_ident, struct_ident, name, generic_params,
                                          param_ids)
              [] invoke_type.it = "Subset" ->
                    invoke_some_block(is_method, output_type, methods, closure_ident,
                                      struct_ident, generic_params, param_ids)
              [] invoke_type.it = "All" ->
                    invoke_all_block(is_method, output_type, methods, closure_ident,
                                     struct_ident, generic_params, param_ids)
    IN IF self_by_move
       THEN Panicked(SelfMoveMsg)
       ELSE Created([item |-> "Method", attrs |-> base_method.attrs, vis |-> base_method.vis,
                     sig |-> invoke_sig, block |-> invoke_block])

(***************************************************************************)
(* fn create_enum, fn validate_signatures, fn get_struct_identifier_as_path *)
(***************************************************************************)
\* create_enum deriving Debug and Clone only
create_enum_not_copy(methods, struct_ident, name) ==
    LET identifiers == [k \in 1..Len(methods) |-> methods[k].sig.ident]
        names == [k \in 1..Len(identifiers) |-> identifiers[k]]
        num_members == Len(identifiers)
        enum_name == generate_enum_name(struct_ident, name)
    IN [ident |-> enum_name,
        vis |-> "pub",
        derives |-> <<"Debug", "Clone">>,
        variants |-> identifiers,
        \* fn iter: static members: [enum; num_members] = [identifiers]
        num_members |-> num_members,
        members |-> identifiers,
        \* impl TryFrom<&str>: one arm per name, then the Err arm
        try_from |-> [k \in 1..Len(names) |-> [str |-> names[k], variant |-> identifiers[k]]],
        try_from_err |-> "Input str does not match any enums in Self!",
        \* impl From<enum> for &str: one arm per variant
        from_enum |-> [k \in 1..Len(names) |-> [variant |-> identifiers[k], str |-> names[k]]]]

create_enum(methods, struct_ident, name) ==
    LET identifiers == [k \in 1..Len(methods) |-> methods[k].sig.ident]
        names == [k \in 1..Len(identifiers) |-> identifiers[k]]
        num_members == Len(identifiers)
        enum_name == generate_enum_name(struct_ident, name)
    IN [ident |-> enum_name,
        vis |-> "pub",
        derives |-> <<"Debug", "Clone", "Copy">>,
        variants |-> identifiers,
        \* fn iter: static members: [enum; num_members] = [identifiers]
        num_members |-> num_members,
        members |-> identifiers,
        \* impl TryFrom<&str>: one arm per name, then the Err arm
        try_from |-> [k \in 1..Len(names) |-> [str |-> names[k], variant |-> identifiers[k]]],
        try_from_err |-> "Input str does not match any enums in Self!",
        \* impl From<enum> for &str: one arm per variant
        from_enum |-> [k \in 1..Len(names) |-> [variant |-> identifiers[k], str |-> names[k]]]]

\* what validate_signatures compares: the identifier, the attributes and the
\* body are replaced, every other field of the ImplItemMethod is kept
comparison_form(method) ==
    [method EXCEPT !.sig.ident = "name", !.attrs = <<>>, !.block = <<>>]

\* validate_signatures comparing each method with itself: nothing is ever rejected
validate_signatures_self_compare(base_method, methods) ==
    LET differing == {k \in 1..Len(methods) :
                        comparison_form(methods[k]) /= comparison_form(methods[k])}
    IN IF differing = {}
       THEN None
       ELSE Some([msg |-> "ImplItemMethods different!",
                  base |-> comparison_form(base_method),
                  method |-> comparison_form(base_method)])

\* None when the loop completes, otherwise the panic of the first method that differs
validate_signatures(base_method, methods) ==
    LET method_comparison == comparison_form(base_method)
        differing == {k \in 1..Len(methods) : method_comparison /= comparison_form(methods[k])}
    IN IF differing = {}
       THEN None
       ELSE LET first == CHOOSE k \in differing : \A j \in differing : k <= j
            IN Some([msg |-> "ImplItemMethods different!",
                     base |-> method_comparison,
                     method |-> comparison_form(methods[first])])

get_struct_identifier_as_path(impl) ==
    IF impl.self_ty.ty = "Path"
    THEN [ok |-> TRUE, v |-> impl.self_ty.segments[1]]
    ELSE [ok |-> FALSE, v |-> "No struct name detected!"]

(***************************************************************************)
(* fn invoke_impl: the expansion of one attribute use.  in.args is the     *)
(* pair parse_args returns, in.impl the ItemImpl the attribute is on.      *)
(***************************************************************************)
Pending == [state |-> "pending", msg |-> "", detail |-> <<>>, items |-> <<>>, enum |-> <<>>]
Aborted(m, d) == [state |-> "panicked", msg |-> m, detail |-> d, items |-> <<>>, enum |-> <<>>]

\* invoke_impl counting every item of the block, not only the methods
Expansion_counting_items(in) ==
    LET name == in.args.name
        clones == in.args.clone
        methods == SelectSeq(in.impl.items, LAMBDA i : i.item = "Method")
        count == Len(in.impl.items)
        names == [k \in 1..Len(methods) |-> methods[k].sig.ident]
        checked == validate_signatures(methods[1], methods)
        struct == get_struct_identifier_as_path(in.impl)
        struct_ident == struct.v
        enum_tokenstream == create_enum(methods, struct_ident, name)
        fns == [k \in 1..6 |->
                  create_invoke_function(methods[1], methods, struct_ident, InvokeTypes[k],
                                         name, clones)]
        mc_ident == IF is_some(name) THEN "METHOD_COUNT_" \o unwrap(name) ELSE "METHOD_COUNT"
        ml_ident == IF is_some(name) THEN "METHOD_LIST_" \o unwrap(name) ELSE "METHOD_LIST"
    IN IF count = 0 THEN Aborted("index out of bounds", <<>>)
       ELSE IF is_some(checked) THEN Aborted(unwrap(checked).msg, checked)
       ELSE IF ~struct.ok THEN Aborted(struct.v, <<>>)
       ELSE IF fns[1].panicked THEN Aborted(fns[1].msg, <<>>)
       ELSE [state |-> "expanded", msg |-> "", detail |-> <<>>,
             items |-> in.impl.items
                       \o [k \in 1..6 |-> unwrap(fns[k].item)]
                       \o << ConstItem("pub", mc_ident, "usize", <<count>>),
                             ConstItem("pub", ml_ident, "[&'static str; count]", names) >>,
             enum |-> Some(enum_tokenstream)]

Expansion(in) ==
    LET name == in.args.name
        clones == in.args.clone
        methods == SelectSeq(in.impl.items, LAMBDA i : i.item = "Method")
        count == Len(methods)
        names == [k \in 1..Len(methods) |-> methods[k].sig.ident]
        checked == validate_signatures(methods[1], methods)
        struct == get_struct_identifier_as_path(in.impl)
        struct_ident == struct.v
        enum_tokenstream == create_enum(methods, struct_ident, name)
        fns == [k \in 1..6 |->
                  create_invoke_function(methods[1], methods, struct_ident, InvokeTypes[k],
                                         name, clones)]
        mc_ident == IF is_some(name) THEN "METHOD_COUNT_" \o unwrap(name) ELSE "METHOD_COUNT"
        ml_ident == IF is_some(name) THEN "METHOD_LIST_" \o unwrap(name) ELSE "METHOD_LIST"
    IN IF count = 0 THEN Aborted("index out of bounds", <<>>)
       ELSE IF is_some(checked) THEN Aborted(unwrap(checked).msg, checked)
       ELSE IF ~struct.ok THEN Aborted(struct.v, <<>>)
       ELSE IF fns[1].panicked THEN Aborted(fns[1].msg, <<>>)
       ELSE [state |-> "expanded", msg |-> "", detail |-> <<>>,
             items |-> in.impl.items
                       \o [k \in 1..6 |-> unwrap(fns[k].item)]
                       \o << ConstItem("pub", mc_ident, "usize", <<count>>),
                             ConstItem("pub", ml_ident, "[&'static str; count]", names) >>,
             enum |-> Some(enum_tokenstream)]

(***************************************************************************)
(* Inputs: the impl blocks and attribute arguments the macro is applied to *)
(***************************************************************************)
MaxMembers == 2        \* methods in the impl block
MaxSelectors == 3      \* length of the sequence passed as invoke_impl_iter
MaxClonePos == 1       \* largest position given to clone(...)

MemberIdents == <<"fn1", "fn2", "fn3", "fn4", "fn5">>
StructIdent == "Tester1"

SelfTy == [ty |-> "Path", segments |-> <<StructIdent>>]

CloneArgs == {None} \cup {Some(S) : S \in SUBSET (0..MaxClonePos)}
NameArgs == {None, Some("x")}
OutputTypes == {ReturnDefault, ReturnTy("()"), ReturnTy("i32")}

Input(name, clone, methods) ==
    [args |-> [name |-> name, clone |-> clone],
     impl |-> [self_ty |-> SelfTy, items |-> methods]]

\* how an argument of each parameter type is passed when it is forwarded directly
PassMode(ty) ==
    CASE ty.args[1] = "String" -> "Move"
      [] ty.args[1] = "&mut Vec<i32>" -> "RefMut"
      [] OTHER -> "Copy"

ParamsCopy == <<TypedArg("Ident", "i", PathTy("i32"))>>
ParamsOwned == <<TypedArg("Ident", "s", PathTy("String")),
                 TypedArg("Ident", "v", PathTy("&mut Vec<i32>"))>>
ParamsWild == <<TypedArg("Ident", "i", PathTy("i32")), TypedArg("Wild", "_", PathTy("i32"))>>

\* n methods that differ in their identifiers only
UniformGroup(n, recv, params, generics, out) ==
    [k \in 1..n |-> Method(<<>>, "pub", MemberIdents[k], generics, recv \o params, out,
                           <<"body">>)]

\* the expanded code is accepted by the compiler: every parameter is bound to
\* an identifier, a String is cloned for each call, a &mut is reborrowed
Compiles(in) ==
    LET inputs == in.impl.items[1].sig.inputs
        clone == in.args.clone
        cloned(k) == is_some(clone) /\ (k - 1) \in unwrap(clone)
    IN \A k \in 1..Len(inputs) :
          /\ inputs[k].arg = "Receiver" => inputs[k].reference
          /\ inputs[k].arg = "Typed" =>
                /\ inputs[k].pat = "Ident"
                /\ PassMode(inputs[k].ty) = "Move" => cloned(k)
                /\ PassMode(inputs[k].ty) = "RefMut" => ~cloned(k)

RunInputs ==
    {in \in {Input(None, cl, UniformGroup(n, recv, params, <<>>, out)) :
                cl \in CloneArgs, n \in 1..MaxMembers, recv \in {<<>>, <<Receiver(TRUE)>>},
                params \in {ParamsCopy, ParamsOwned}, out \in OutputTypes} :
        /\ Compiles(in)
        \* a position past the last parameter changes nothing in the expanded code
        /\ is_some(in.args.clone) =>
              unwrap(in.args.clone) \subseteq 0..(Len(in.impl.items[1].sig.inputs) - 1)}

\* the ways a method of the block may differ from the first one
Variations ==
    {"ident", "vis", "attrs", "block", "param_ident", "param_type", "receiver",
     "generics", "output", "unit"}

Vary(m, how) ==
    LET inputs == m.sig.inputs
        first == IF \E k \in 1..Len(inputs) : inputs[k].arg = "Typed"
                 THEN CHOOSE k \in 1..Len(inputs) :
                        /\ inputs[k].arg = "Typed"
                        /\ \A j \in 1..(k - 1) : inputs[j].arg /= "Typed"
                 ELSE 0
    IN CASE how = "vis" -> [m EXCEPT !.vis = ""]
         [] how = "attrs" -> [m EXCEPT !.attrs = <<"/// doc">>]
         [] how = "block" -> [m EXCEPT !.block = <<"other body">>]
         [] how = "param_ident" ->
                IF first = 0 THEN m ELSE [m EXCEPT !.sig.inputs[first].ident = "j",
                                                   !.sig.inputs[first].pat = "Ident"]
         [] how = "param_type" ->
                IF first = 0 THEN m ELSE [m EXCEPT !.sig.inputs[first].ty = PathTy("u8")]
         [] how = "receiver" ->
                IF inputs /= <<>> /\ inputs[1].arg = "Receiver"
                THEN [m EXCEPT !.sig.inputs = Tail(inputs)]
                ELSE [m EXCEPT !.sig.inputs = <<Receiver(TRUE)>> \o inputs]
         [] how = "generics" -> [m EXCEPT !.sig.generics = <<TypeParam("T", "Clone")>>]
         [] how = "output" ->
                [m EXCEPT !.sig.output =
                    IF m.sig.output = ReturnTy("i32") THEN ReturnDefault ELSE ReturnTy("i32")]
         [] how = "unit" ->
                [m EXCEPT !.sig.output =
                    IF m.sig.output = ReturnDefault THEN ReturnTy("()")
                    ELSE IF m.sig.output = ReturnTy("()") THEN ReturnDefault
                    ELSE m.sig.output]
         [] OTHER -> m

VariedGroup(base, hows) ==
    [k \in 1..(Len(hows) + 1) |->
        IF k = 1 THEN base ELSE [Vary(base, hows[k - 1]) EXCEPT !.sig.ident = MemberIdents[k]]]

BaseMethods ==
    {Method(<<>>, "pub", MemberIdents[1], generics, recv \o params, out, <<"body">>) :
        generics \in {<<>>, <<TypeParam("T", "Copy"), LifetimeParam("'a")>>},
        recv \in {<<>>, <<Receiver(TRUE)>>, <<Receiver(FALSE)>>},
        params \in {<<>>, ParamsCopy, ParamsOwned, ParamsWild},
        out \in OutputTypes}

GenInputs ==
    {Input(nm, cl, VariedGroup(base, hows)) :
        nm \in NameArgs, cl \in CloneArgs, base \in BaseMethods,
        hows \in UNION {[1..k -> Variations] : k \in 0..(MaxMembers - 1)}}

(***************************************************************************)
(* Running the expanded code                                               *)
(***************************************************************************)
Moved == -1
Unit == [by |-> "", args |-> <<>>]

TagUsize(n) == [ty |-> "usize", n |-> n, variant |-> ""]
TagEnum(enum_name, v) == [ty |-> enum_name, n |-> -1, variant |-> v]

Methods == SelectSeq(input.impl.items, LAMBDA i : i.item = "Method")
Count == Len(Methods)

\* the six functions pushed after the items of the block
Generated == [k \in 1..6 |-> output.items[Len(input.impl.items) + k]]

IterParam(f) ==
    SelectSeq(f.sig.inputs, LAMBDA a : a.arg = "Typed" /\ a.ident = "invoke_impl_iter")
TypeOf(f, id) ==
    LET ps == SelectSeq(f.sig.inputs, LAMBDA a : a.arg = "Typed" /\ a.ident = id)
    IN ps[1].ty

\* the value the caller passes for a parameter of the methods
InitialValue(ty) ==
    CASE ty.args[1] = "String" -> 7
      [] ty.args[1] = "&mut Vec<i32>" -> 0
      [] OTHER -> 5

InitialEnv(f) ==
    LET ps == SelectSeq(f.sig.inputs, LAMBDA a : a.arg = "Typed" /\ a.ty.kind = "path")
    IN [id \in {ps[k].ident : k \in 1..Len(ps)} |-> InitialValue(TypeOf(f, id))]

\* the values an iterator of the given item type can yield
SelectorValues(item_ty) ==
    IF item_ty = "usize"
    THEN {TagUsize(n) : n \in 0..Count}
    ELSE {TagEnum(item_ty, v) : v \in {unwrap(output.enum).variants[k] :
                                          k \in 1..Len(unwrap(output.enum).variants)}}

SeqsUpTo(S, n) == UNION {[1..k -> S] : k \in 0..n}

Fn == callee[1]

InLoop == Len(Fn.block) = 1 /\ Fn.block[1].expr.expr = "ForLoop"

IsConsumerCall(e) == e.expr = "Call" /\ e.qual = "" /\ e.name = "consumer"
IsInnerCall(e) == e.expr \in {"Call", "MethodCall"} /\ ~IsConsumerCall(e)

\* the call of a method of the block inside statement expression e, if any
InnerOf(e) ==
    IF IsInnerCall(e) THEN Some(e)
    ELSE IF IsConsumerCall(e) /\ e.args /= <<>> /\ IsInnerCall(e.args[Len(e.args)])
         THEN Some(e.args[Len(e.args)])
         ELSE None

\* value of a literal or path argument of the closure call
TagValue(e) == IF e.expr = "Lit" THEN TagUsize(e.lit) ELSE TagEnum(e.qual, e.name)

\* the argument expression a evaluates to the value the method receives
Received(a) == IF a.expr = "MethodCall" THEN env[a.qual] ELSE env[a.name]

\* a moves a String out of its variable, or lends a &mut the method writes through
EnvAfterCall(inner) ==
    [id \in DOMAIN env |->
        IF \E k \in 1..Len(inner.args) :
              inner.args[k].expr = "Path" /\ inner.args[k].name = id
        THEN CASE PassMode(TypeOf(Fn, id)) = "Move" -> Moved
               [] PassMode(TypeOf(Fn, id)) = "RefMut" -> env[id] + 1
               [] OTHER -> env[id]
        ELSE env[id]]

IsVoid == Methods[1].sig.output \in {ReturnDefault, ReturnTy("()")}

MemberEvent(inner) ==
    LET received == [k \in 1..Len(inner.args) |-> Received(inner.args[k])]
    IN [ev |-> "member", on |-> inner.qual, fn |-> inner.name, turbofish |-> inner.turbofish,
        args |-> received,
        ret |-> IF IsVoid THEN Unit ELSE [by |-> inner.name, args |-> received]]

ConsumerEvent(e) ==
    LET lits == SelectSeq(e.args, LAMBDA a : a.expr \in {"Lit", "Path"})
    IN [ev |-> "consumer",
        tag |-> [k \in 1..Len(lits) |-> TagValue(lits[k])],
        value |-> tmp]

Matches(pat, sel) ==
    CASE pat.expr = "Wild" -> TRUE
      [] pat.expr = "Lit" -> sel.ty = "usize" /\ sel.n = pat.lit
      [] pat.expr = "Path" -> sel.ty = pat.qual /\ sel.variant = pat.name
      [] OTHER -> FALSE

FirstMatch(arms, sel) ==
    CHOOSE k \in 1..Len(arms) :
        /\ Matches(arms[k].pat, sel)
        /\ \A j \in 1..(k - 1) : ~Matches(arms[j].pat, sel)

Init ==
    /\ input \in RunInputs
    /\ output = Pending
    /\ status = "idle"
    /\ callee = <<>>
    /\ env = <<>>
    /\ selectors = <<>>
    /\ taken = 0
    /\ body = <<>>
    /\ ip = 1
    /\ tmp = None
    /\ trace = <<>>
    /\ err = ""
    /\ conv = <<>>
    /\ iters = <<>>
    /\ cyclic = FALSE

InitGen ==
    /\ input \in GenInputs
    /\ output = Pending
    /\ status = "idle"
    /\ callee = <<>>
    /\ env = <<>>
    /\ selectors = <<>>
    /\ taken = 0
    /\ body = <<>>
    /\ ip = 1
    /\ tmp = None
    /\ trace = <<>>
    /\ err = ""
    /\ conv = <<>>
    /\ iters = <<>>
    /\ cyclic = FALSE

\* the compiler expands the attribute
invoke_impl ==
    /\ output.state = "pending"
    /\ output' = Expansion(input)
    /\ UNCHANGED <<cyclic, input, status, callee, env, selectors, taken, body, ip, tmp, trace, err>>
    /\ UNCHANGED <<conv, iters>>

\* a caller calls one of the six functions
CallDispatcher ==
    /\ output.state = "expanded"
    /\ status = "idle"
    /\ \E k \in 1..6 :
          LET f == Generated[k]
          IN /\ callee' = <<f>>
             /\ env' = InitialEnv(f)
             /\ IF IterParam(f) /= <<>>
                THEN /\ selectors' \in SeqsUpTo(SelectorValues(IterParam(f)[1].ty.args[1]),
                                               MaxSelectors)
                     /\ body' = <<>>
                ELSE /\ selectors' = <<>>
                     /\ body' = f.block
    /\ status' = "running"
    /\ ip' = 1
    /\ taken' = 0
    /\ tmp' = None
    /\ trace' = <<>>
    /\ err' = ""
    /\ UNCHANGED <<cyclic, input, output, conv, iters>>

\* EvalInnerCall catching the panic of the method and going on with the next statement
EvalInnerCall_catching ==
    /\ status = "running"
    /\ ip <= Len(body)
    /\ body[ip].expr.expr \in {"Call", "MethodCall"}
    /\ is_some(InnerOf(body[ip].expr))
    /\ tmp = None
    /\ LET e == body[ip].expr
           inner == unwrap(InnerOf(e))
           event == MemberEvent(inner)
       IN /\ trace' = Append(trace, event)
          /\ env' = EnvAfterCall(inner)
          /\ \E panics \in BOOLEAN :
                IF panics
                THEN /\ err' = "method panicked"
                     /\ ip' = ip + 1
                     /\ tmp' = None
                     /\ UNCHANGED status
                ELSE /\ IF IsInnerCall(e)
                        THEN ip' = ip + 1 /\ tmp' = None
                        ELSE ip' = ip /\ tmp' = Some(event.ret)
                     /\ UNCHANGED <<status, err>>
    /\ UNCHANGED <<cyclic, input, output, callee, selectors, taken, body, conv, iters>>

\* the statement being run calls a method of the block: the arguments are
\* evaluated, the method runs, and it returns or panics
EvalInnerCall ==
    /\ status = "running"
    /\ ip <= Len(body)
    /\ body[ip].expr.expr \in {"Call", "MethodCall"}
    /\ is_some(InnerOf(body[ip].expr))
    /\ tmp = None
    /\ LET e == body[ip].expr
           inner == unwrap(InnerOf(e))
           event == MemberEvent(inner)
       IN /\ trace' = Append(trace, event)
          /\ env' = EnvAfterCall(inner)
          /\ \E panics \in BOOLEAN :
                IF panics
                THEN /\ status' = "panicked"
                     /\ err' = "method panicked"
                     /\ UNCHANGED <<ip, tmp>>
                ELSE /\ IF IsInnerCall(e)
                        THEN ip' = ip + 1 /\ tmp' = None
                        ELSE ip' = ip /\ tmp' = Some(event.ret)
                     /\ UNCHANGED <<status, err>>
    /\ UNCHANGED <<cyclic, input, output, callee, selectors, taken, body, conv, iters>>

\* the statement being run calls the closure and its arguments are evaluated
CallConsumer ==
    /\ status = "running"
    /\ ip <= Len(body)
    /\ body[ip].expr.expr = "Call"
    /\ IsConsumerCall(body[ip].expr)
    /\ is_some(InnerOf(body[ip].expr)) => is_some(tmp)
    /\ trace' = Append(trace, ConsumerEvent(body[ip].expr))
    /\ tmp' = None
    /\ \E panics \in BOOLEAN :
          IF panics
          THEN /\ status' = "panicked"
               /\ err' = "consumer panicked"
               /\ UNCHANGED ip
          ELSE /\ ip' = ip + 1
               /\ UNCHANGED <<status, err>>
    /\ UNCHANGED <<cyclic, input, output, callee, env, selectors, body>>
    /\ UNCHANGED <<taken, conv, iters>>

\* NextSelector pulling a second element from invoke_impl_iter when there is one
NextSelector_reading_ahead ==
    /\ status = "running"
    /\ InLoop
    /\ ip > Len(body)
    /\ LET starts_over == cyclic /\ selectors /= <<>> /\ taken = Len(selectors)
           pos == IF starts_over THEN 0 ELSE taken
       IN /\ trace' = IF starts_over THEN <<>> ELSE trace
          /\ IF pos = Len(selectors)
             THEN /\ status' = "done"
                  /\ UNCHANGED <<taken, body, ip, err>>
             ELSE LET arms == Fn.block[1].expr.arms
                      arm == arms[FirstMatch(arms, selectors[pos + 1])]
                  IN /\ taken' = IF pos + 2 <= Len(selectors) THEN pos + 2 ELSE pos + 1
                     /\ IF arm.body /= <<>> /\ arm.body[1].expr.expr = "Macro"
                        THEN /\ status' = "panicked"
                             /\ err' = arm.body[1].expr.msg
                             /\ UNCHANGED <<body, ip>>
                        ELSE /\ body' = arm.body
                             /\ ip' = 1
                             /\ UNCHANGED <<status, err>>
    /\ UNCHANGED <<cyclic, input, output, callee, env, selectors, tmp, conv, iters>>

\* the for loop asks invoke_impl_iter for its next element and matches on it
NextSelector ==
    /\ status = "running"
    /\ InLoop
    /\ ip > Len(body)
    /\ LET starts_over == cyclic /\ selectors /= <<>> /\ taken = Len(selectors)
           pos == IF starts_over THEN 0 ELSE taken
       IN /\ trace' = IF starts_over THEN <<>> ELSE trace
          /\ IF pos = Len(selectors)
             THEN /\ status' = "done"
                  /\ UNCHANGED <<taken, body, ip, err>>
             ELSE LET arms == Fn.block[1].expr.arms
                      arm == arms[FirstMatch(arms, selectors[pos + 1])]
                  IN /\ taken' = pos + 1
                     /\ IF arm.body /= <<>> /\ arm.body[1].expr.expr = "Macro"
                        THEN /\ status' = "panicked"
                             /\ err' = arm.body[1].expr.msg
                             /\ UNCHANGED <<body, ip>>
                        ELSE /\ body' = arm.body
                             /\ ip' = 1
                             /\ UNCHANGED <<status, err>>
    /\ UNCHANGED <<cyclic, input, output, callee, env, selectors, tmp, conv, iters>>

\* the last statement of a block without a loop has run
Return ==
    /\ status = "running"
    /\ ~InLoop
    /\ ip > Len(body)
    /\ status' = "done"
    /\ UNCHANGED <<cyclic, input, output, callee, env, selectors, taken, body, ip, tmp, trace, err>>
    /\ UNCHANGED <<conv, iters>>

Next ==
    \/ invoke_impl
    \/ CallDispatcher
    \/ EvalInnerCall
    \/ CallConsumer
    \/ NextSelector
    \/ Return

Spec == Init /\ [][Next]_vars

NextGen == invoke_impl

SpecGen == InitGen /\ [][NextGen]_vars

(***************************************************************************)
(* Vocabulary of the properties                                            *)
(***************************************************************************)
MemberCalls == SelectSeq(trace, LAMBDA e : e.ev = "member")
ConsumerCalls == SelectSeq(trace, LAMBDA e : e.ev = "consumer")
CalledFns == [k \in 1..Len(MemberCalls) |-> MemberCalls[k].fn]
DeclaredFns == [k \in 1..Count |-> Methods[k].sig.ident]

Running(invoke_type) ==
    /\ status /= "idle"
    /\ Fn.sig.ident = generate_invoke_name(input.args.name, invoke_type)

AllScope == Running(All) \/ Running(SpecifiedAll("Enumerated")) \/ Running(SpecifiedAll("Enum"))
CallerSpecified == Running(Subset) \/ Running(Specified("Enumerated")) \/ Running(Specified("Enum"))
IndexTagged == Running(SpecifiedAll("Enumerated")) \/ Running(Specified("Enumerated"))
EnumTagged == Running(SpecifiedAll("Enum")) \/ Running(Specified("Enum"))

HasConsumer ==
    \E k \in 1..Len(Fn.sig.inputs) :
        Fn.sig.inputs[k].arg = "Typed" /\ Fn.sig.inputs[k].ident = "consumer"

IndexOf(ident) == (CHOOSE k \in 1..Count : Methods[k].sig.ident = ident) - 1
EnumName == unwrap(output.enum).ident

Valid(sel) == sel.ty = "usize" => sel.n < Count
AllValid == \A j \in 1..Len(selectors) : Valid(selectors[j])
FirstInvalid ==
    CHOOSE j \in 1..Len(selectors) :
        ~Valid(selectors[j]) /\ \A i \in 1..(j - 1) : Valid(selectors[i])

\* the method a valid selector stands for
Resolve(sel) == IF sel.ty = "usize" THEN Methods[sel.n + 1].sig.ident ELSE sel.variant

(***************************************************************************)
(* C1: an invocation of invoke_all, invoke_all_enumerated or               *)
(* invoke_all_enum that runs to completion has called every method of the  *)
(* block exactly once, in declaration order.                               *)
(***************************************************************************)
C1_AllScopeCallsEachMemberOnceInOrder ==
    (status = "done" /\ AllScope) => CalledFns = DeclaredFns

C1_Witness ==
    /\ status = "done"
    /\ Running(SpecifiedAll("Enumerated"))
    /\ Count >= 2
    /\ ~IsVoid
    /\ CalledFns = DeclaredFns

(***************************************************************************)
(* C2: an invocation of invoke_subset, invoke_enumerated or invoke_enum    *)
(* on a sequence of k valid selectors does not fail for its selectors, and *)
(* when it completes it has made exactly k method calls, the j-th one to   *)
(* the method the j-th selector stands for.                                *)
(***************************************************************************)
C2_CallerSpecifiedFollowsSelectors ==
    (CallerSpecified /\ AllValid) =>
        /\ err /= InvalidIndexMsg
        /\ Len(MemberCalls) <= Len(selectors)
        /\ \A j \in 1..Len(MemberCalls) : MemberCalls[j].fn = Resolve(selectors[j])
        /\ status = "done" => Len(MemberCalls) = Len(selectors)

\* fn2, fn1, fn2: a repeat and a reordering
C2_Witness ==
    /\ status = "done"
    /\ Running(Subset)
    /\ Count = 2
    /\ selectors = <<TagUsize(1), TagUsize(0), TagUsize(1)>>
    /\ CalledFns = <<"fn2", "fn1", "fn2">>

(***************************************************************************)
(* C3: in invoke_subset and invoke_enumerated an out-of-range selector is  *)
(* never skipped.  The invocation never completes, nothing is taken from   *)
(* the sequence past the first such selector, and when the invalid-index   *)
(* panic is raised exactly the calls of the preceding selectors have been  *)
(* made, in order.                                                         *)
(***************************************************************************)
C3_InvalidSelectorAborts ==
    (Running(Subset) \/ Running(Specified("Enumerated"))) =>
        /\ ~AllValid =>
              /\ status /= "done"
              /\ taken <= FirstInvalid
              /\ Len(MemberCalls) <= FirstInvalid - 1
              /\ Len(ConsumerCalls) <= FirstInvalid - 1
        /\ err = InvalidIndexMsg =>
              /\ ~AllValid
              /\ status = "panicked"
              /\ taken = FirstInvalid
              /\ CalledFns = [j \in 1..(FirstInvalid - 1) |-> Resolve(selectors[j])]
              /\ Len(ConsumerCalls) = IF HasConsumer THEN FirstInvalid - 1 ELSE 0

C3_Witness ==
    /\ Running(Specified("Enumerated"))
    /\ err = InvalidIndexMsg
    /\ Len(selectors) = 3
    /\ FirstInvalid = 2
    /\ Len(MemberCalls) = 1
    /\ Len(ConsumerCalls) = 1

(***************************************************************************)
(* C4: in the four tagged functions every call of the closure receives the *)
(* tag of the method called just before it: its 0-based position in the    *)
(* block for the enumerated functions, the enum variant named after it for *)
(* the enum functions; in invoke_enumerated and invoke_enum that tag is    *)
(* the selector of the step.                                               *)
(***************************************************************************)
C4_ConsumerReceivesTagOfMember ==
    (IndexTagged \/ EnumTagged) =>
        /\ \A i \in 1..Len(trace) :
              trace[i].ev = "consumer" =>
                  /\ i > 1
                  /\ trace[i - 1].ev = "member"
                  /\ IndexTagged => trace[i].tag = <<TagUsize(IndexOf(trace[i - 1].fn))>>
                  /\ EnumTagged => trace[i].tag = <<TagEnum(EnumName, trace[i - 1].fn)>>
        /\ CallerSpecified =>
              \A j \in 1..Len(ConsumerCalls) : ConsumerCalls[j].tag = <<selectors[j]>>

C4_Witness ==
    /\ Running(Specified("Enum"))
    /\ status = "done"
    /\ Len(ConsumerCalls) = 3
    /\ ConsumerCalls[1].tag /= ConsumerCalls[2].tag

(***************************************************************************)
(* The two axes of the six functions, and the parameters they call for     *)
(***************************************************************************)
TagAxis(invoke_type) ==
    IF invoke_type.it \in {"All", "Subset"} THEN "None"
    ELSE IF invoke_type.st = "Enumerated" THEN "Index" ELSE "Discriminant"

ScopeAxis(invoke_type) ==
    IF invoke_type.it \in {"All", "SpecifiedAll"} THEN "All" ELSE "CallerSpecified"

ExpectedTrailing(invoke_type, out, enum_name) ==
    LET tag == CASE TagAxis(invoke_type) = "Index" -> <<"usize">>
                 [] TagAxis(invoke_type) = "Discriminant" -> <<enum_name>>
                 [] OTHER -> <<>>
        void == out.rt = "Default" \/ out.ty = "()"
        callback == IF void THEN tag ELSE Append(tag, out.ty)
        element == IF TagAxis(invoke_type) = "Discriminant" THEN enum_name ELSE "usize"
    IN (IF callback = <<>>
        THEN <<>>
        ELSE <<TypedArg("Ident", "consumer", ImplFnMut(callback))>>)
       \o (IF ScopeAxis(invoke_type) = "CallerSpecified"
           THEN <<TypedArg("Ident", "invoke_impl_iter", ImplIterator(element))>>
           ELSE <<>>)

(***************************************************************************)
(* C5: the parameters of each of the six functions are those of the first  *)
(* method followed by a closure and a selector sequence that depend only   *)
(* on the scope, the tagging and the return type: closure (T), (usize, T)  *)
(* or (enum, T) when the methods return T; closure (usize) or (enum), and  *)
(* none without tagging, when they return nothing (no return type, or an   *)
(* explicit unit type); a selector sequence exactly for invoke_subset,     *)
(* invoke_enumerated (of usize) and invoke_enum (of the enum).             *)
(***************************************************************************)
C5_TrailingParameters ==
    output.state = "expanded" =>
        \A k \in 1..6 :
            /\ Generated[k].sig.ident = generate_invoke_name(input.args.name, InvokeTypes[k])
            /\ Generated[k].sig.inputs =
                   Methods[1].sig.inputs
                   \o ExpectedTrailing(InvokeTypes[k], Methods[1].sig.output, EnumName)

\* methods with an explicit unit return type: no closure for invoke_all
C5_Witness ==
    /\ output.state = "expanded"
    /\ Methods[1].sig.output = ReturnTy("()")
    /\ Methods[1].sig.inputs /= <<>>
    /\ Generated[1].sig.inputs = Methods[1].sig.inputs
    /\ Len(Generated[6].sig.inputs) = Len(Methods[1].sig.inputs) + 2

(***************************************************************************)
(* C6: every call of the closure comes right after the call of the method  *)
(* of the same step has returned; it receives the value that call returned *)
(* when the methods return one, and only the tag when they return nothing; *)
(* and the next method is called only after the closure of the previous    *)
(* step has been called.                                                   *)
(***************************************************************************)
C6_MemberThenConsumer ==
    status /= "idle" =>
        \A i \in 1..Len(trace) :
            /\ trace[i].ev = "consumer" =>
                  /\ i > 1
                  /\ trace[i - 1].ev = "member"
                  /\ IF IsVoid
                     THEN trace[i].value = None /\ Len(trace[i].tag) = 1
                     ELSE trace[i].value = Some(trace[i - 1].ret)
            /\ (trace[i].ev = "member" /\ i > 1) =>
                  trace[i - 1].ev = (IF HasConsumer THEN "consumer" ELSE "member")
            /\ (trace[i].ev = "member" /\ HasConsumer /\ i < Len(trace)) =>
                  trace[i + 1].ev = "consumer"

C6_Witness ==
    /\ status = "done"
    /\ IsVoid
    /\ Running(SpecifiedAll("Enum"))
    /\ Len(trace) = 4
    /\ trace[3].ev = "member"
    /\ trace[4].ev = "consumer"

(***************************************************************************)
(* Vocabulary of the properties of the calls the expansion builds          *)
(***************************************************************************)
StmtsOf(f) ==
    IF Len(f.block) = 1 /\ f.block[1].expr.expr = "ForLoop"
    THEN Flatten([k \in 1..Len(f.block[1].expr.arms) |-> f.block[1].expr.arms[k].body])
    ELSE f.block

\* the calls of methods of the block in the body of f, in textual order
InnerCallsOf(f) ==
    LET ss == SelectSeq(StmtsOf(f),
                        LAMBDA st : /\ st.expr.expr \in {"Call", "MethodCall"}
                                    /\ is_some(InnerOf(st.expr)))
    IN [k \in 1..Len(ss) |-> unwrap(InnerOf(ss[k].expr))]

NonReceiver(m) == SelectSeq(m.sig.inputs, LAMBDA a : a.arg = "Typed")

InCloneSet(p) == is_some(input.args.clone) /\ p \in unwrap(input.args.clone)

ForwardedAsDuplicate(call, id) ==
    \E k \in 1..Len(call.args) :
        /\ call.args[k].expr = "MethodCall"
        /\ call.args[k].qual = id
        /\ call.args[k].name = "clone"

ForwardedDirectly(call, id) ==
    \E k \in 1..Len(call.args) : call.args[k].expr = "Path" /\ call.args[k].name = id

ArgIdent(a) == IF a.expr = "MethodCall" THEN a.qual ELSE a.name

(***************************************************************************)
(* C7: clone positions count the parameters after the receiver from 0: in  *)
(* every call of a method the expansion builds, the parameter at position  *)
(* p after the receiver is forwarded as ident.clone() if p is in the clone *)
(* set and as ident otherwise.                                             *)
(***************************************************************************)
C7_ClonePositionsSkipReceiver ==
    output.state = "expanded" =>
        \A k \in 1..6 :
            \A c \in 1..Len(InnerCallsOf(Generated[k])) :
                \A p \in 0..(Len(NonReceiver(Methods[1])) - 1) :
                    LET call == InnerCallsOf(Generated[k])[c]
                        id == NonReceiver(Methods[1])[p + 1].ident
                    IN IF InCloneSet(p)
                       THEN ForwardedAsDuplicate(call, id)
                       ELSE ForwardedDirectly(call, id)

(***************************************************************************)
(* C8: for a position of the clone set (counted after the receiver) every  *)
(* method call of one invocation receives the value the caller supplied,   *)
(* whatever the methods called before did with theirs, and the caller's    *)
(* value stays as supplied.                                                *)
(***************************************************************************)
C8_ClonedParametersAreFresh ==
    status /= "idle" =>
        \A p \in 0..(Len(NonReceiver(Methods[1])) - 1) :
            InCloneSet(p) =>
                LET param == NonReceiver(Methods[1])[p + 1]
                IN /\ env[param.ident] = InitialValue(param.ty)
                   /\ \A i \in 1..Len(MemberCalls) :
                         MemberCalls[i].args[p + 1] = InitialValue(param.ty)

(***************************************************************************)
(* C9: every call of a method the expansion builds passes one argument per *)
(* parameter after the receiver, in declaration order, and all the calls   *)
(* of one function have the same arguments and the same type parameters,   *)
(* those the methods declare, in order.                                    *)
(***************************************************************************)
C9_EveryParameterForwarded ==
    output.state = "expanded" =>
        \A k \in 1..6 :
            LET calls == InnerCallsOf(Generated[k])
                params == NonReceiver(Methods[1])
                type_params == SelectSeq(Methods[1].sig.generics, LAMBDA g : g.param = "Type")
            IN /\ Len(calls) = Count
               /\ \A c \in 1..Len(calls) :
                     /\ Len(calls[c].args) = Len(params)
                     /\ \A p \in 1..Len(calls[c].args) :
                           p <= Len(params) => ArgIdent(calls[c].args[p]) = params[p].ident
                     /\ calls[c].args = calls[1].args
                     /\ calls[c].turbofish = [g \in 1..Len(type_params) |-> type_params[g].ident]

\* the Signature Shape of a method
SignatureShape(m) ==
    [types |-> [k \in 1..Len(NonReceiver(m)) |-> NonReceiver(m)[k].ty],
     receiver |-> IF \E k \in 1..Len(m.sig.inputs) : m.sig.inputs[k].arg = "Receiver"
                  THEN IF \E k \in 1..Len(m.sig.inputs) :
                             m.sig.inputs[k].arg = "Receiver" /\ m.sig.inputs[k].reference
                       THEN "by-reference" ELSE "by-value"
                  ELSE "none",
     constraints |-> [k \in 1..Len(m.sig.generics) |-> m.sig.generics[k].bounds],
     return |-> IF m.sig.output \in {ReturnDefault, ReturnTy("()")}
                THEN "void" ELSE m.sig.output.ty]

GateRejects == output.state = "panicked" /\ output.msg = "ImplItemMethods different!"

(***************************************************************************)
(* C10: validate_signatures lets a block through exactly when every method *)
(* has the Signature Shape of the first one, the Shape being the parameter *)
(* types in order, the receiver marker, the constraints of the generic     *)
(* parameters and the return shape (nothing, or T).                        *)
(***************************************************************************)
C10_GateComparesShapesOnly ==
    output.state /= "pending" =>
        (~GateRejects <=> \A k \in 1..Count : SignatureShape(Methods[k]) = SignatureShape(Methods[1]))

\* nothing of the expansion exists: no function, no constant, no enum
NothingEmitted == output.items = <<>> /\ output.enum = None

\* the methods whose Signature Shape is not the one of the first method
ShapeDiffers == {k \in 1..Count : SignatureShape(Methods[k]) /= SignatureShape(Methods[1])}

(***************************************************************************)
(* C11: when a method of the block differs from the first one in its       *)
(* Signature Shape, the expansion ends in the validate_signatures panic    *)
(* and emits nothing: no function, no constant and no enum, also not for   *)
(* the methods that did match.                                             *)
(***************************************************************************)
C11_MismatchEmitsNothing ==
    (output.state /= "pending" /\ ShapeDiffers /= {}) => (GateRejects /\ NothingEmitted)

\* the block is full and a method after the first has another parameter type only
C11_Witness ==
    /\ GateRejects
    /\ NothingEmitted
    /\ Count = MaxMembers
    /\ \E k \in 2..Count :
          /\ SignatureShape(Methods[k]).types /= SignatureShape(Methods[1]).types
          /\ SignatureShape(Methods[k]).receiver = SignatureShape(Methods[1]).receiver
          /\ SignatureShape(Methods[k]).return = SignatureShape(Methods[1]).return

\* the first method validate_signatures finds different from the first one
FirstRejected ==
    CHOOSE k \in 1..Count :
        /\ comparison_form(Methods[k]) /= comparison_form(Methods[1])
        /\ \A j \in 1..(k - 1) : comparison_form(Methods[j]) = comparison_form(Methods[1])

(***************************************************************************)
(* C12: the message of the validate_signatures panic carries the           *)
(* identifier of the first method of the block and the identifier of the   *)
(* first method, in declaration order, that differs from it.               *)
(***************************************************************************)
C12_DiagnosticNamesBothMembers ==
    GateRejects =>
        /\ unwrap(output.detail).base.sig.ident = Methods[1].sig.ident
        /\ unwrap(output.detail).method.sig.ident = Methods[FirstRejected].sig.ident

\* the receiver of method k of the block: "none", "by-reference" or "by-value"
ReceiverOf(k) == SignatureShape(Methods[k]).receiver

ReceiversOf(f) == SelectSeq(f.sig.inputs, LAMBDA a : a.arg = "Receiver")

(***************************************************************************)
(* C14: when the methods take `&self`, each of the six functions takes the *)
(* same receiver, first in its signature, and calls every method on        *)
(* `self`; when the methods take no receiver, none of the six functions    *)
(* takes one and every method is called by its path through the type of    *)
(* the impl block.                                                         *)
(***************************************************************************)
C14_ReceiverFormIsUniform ==
    output.state = "expanded" =>
        \A k \in 1..6 :
            LET f == Generated[k]
                calls == InnerCallsOf(f)
            IN /\ Len(calls) = Count
               /\ IF ReceiverOf(1) = "by-reference"
                  THEN /\ ReceiversOf(f) = ReceiversOf(Methods[1])
                       /\ f.sig.inputs[1].arg = "Receiver"
                       /\ \A c \in 1..Len(calls) :
                             calls[c].expr = "MethodCall" /\ calls[c].qual = "self"
                  ELSE /\ ReceiversOf(f) = <<>>
                       /\ \A c \in 1..Len(calls) :
                             calls[c].expr = "Call" /\ calls[c].qual = StructIdent

\* a full block of `&self` methods was expanded
C14_Witness ==
    /\ output.state = "expanded"
    /\ Count = MaxMembers
    /\ ReceiverOf(1) = "by-reference"
    /\ \A k \in 1..6 : \A c \in 1..Count : InnerCallsOf(Generated[k])[c].qual = "self"

(***************************************************************************)
(* Using the generated enum: iter(), TryFrom<&str> and From<enum> for &str *)
(***************************************************************************)
MaxIters == 2          \* iterators returned by iter() that are alive together

FamilyNames == {None, Some("x"), Some("enum")}
Visibilities == {"pub", ""}

\* n methods of one visibility, with or without a const item after the first
EnumGroup(n, vis, with_const) ==
    LET ms == [k \in 1..n |-> Method(<<>>, vis, MemberIdents[k], <<>>,
                                     <<Receiver(TRUE)>> \o ParamsCopy, ReturnTy("i32"),
                                     <<"body">>)]
    IN IF with_const
       THEN <<ms[1], ConstItem(vis, "LIMIT", "usize", <<7>>)>> \o Tail(ms)
       ELSE ms

EnumInputs ==
    {Input(nm, None, EnumGroup(n, vis, with_const)) :
        nm \in FamilyNames, n \in 1..MaxMembers, vis \in Visibilities, with_const \in BOOLEAN}

TheEnum == unwrap(output.enum)

\* the values of the enum
Tags == {TagEnum(TheEnum.ident, TheEnum.variants[k]) : k \in 1..Len(TheEnum.variants)}

\* the strings handed to try_from: the identifiers a block can hold, and
\* strings that are no identifier of any block
ProbeStrs == {MemberIdents[k] : k \in 1..MaxMembers} \cup {"", "fn", "FN1"}

Ok(t) == [ok |-> TRUE, tag |-> Some(t), err |-> ""]
Err(e) == [ok |-> FALSE, tag |-> None, err |-> e]

\* try_from answering the first variant where no arm matches
try_from_default_first(en, value) ==
    LET hits == {k \in 1..Len(en.try_from) : en.try_from[k].str = value}
    IN IF hits = {}
       THEN Ok(TagEnum(en.ident, en.try_from[1].variant))
       ELSE Ok(TagEnum(en.ident,
                       en.try_from[CHOOSE k \in hits : \A j \in hits : k <= j].variant))

\* impl TryFrom<&str>: the first arm whose literal is value, else the `_` arm
try_from(en, value) ==
    LET hits == {k \in 1..Len(en.try_from) : en.try_from[k].str = value}
    IN IF hits = {}
       THEN Err(en.try_from_err)
       ELSE Ok(TagEnum(en.ident,
                       en.try_from[CHOOSE k \in hits : \A j \in hits : k <= j].variant))

\* impl From<enum> for &str: the string of the first arm whose pattern is the variant
from(en, t) ==
    LET hits == {k \in 1..Len(en.from_enum) : en.from_enum[k].variant = t.variant}
    IN en.from_enum[CHOOSE k \in hits : \A j \in hits : k <= j].str

\* conv keeps the latest conversion, after the one before it when that one
\* went the other way
Remember(e) ==
    IF Len(conv) = 1 /\ conv[1].fn /= e.fn THEN Append(conv, e) ELSE <<e>>

InitEnum ==
    /\ input \in EnumInputs
    /\ output = Pending
    /\ status = "idle"
    /\ callee = <<>>
    /\ env = <<>>
    /\ selectors = <<>>
    /\ taken = 0
    /\ body = <<>>
    /\ ip = 1
    /\ tmp = None
    /\ trace = <<>>
    /\ err = ""
    /\ conv = <<>>
    /\ iters = <<>>
    /\ cyclic = FALSE

\* a caller converts a string into the enum
CallTryFrom ==
    /\ output.state = "expanded"
    /\ \E value \in ProbeStrs :
          LET r == try_from(TheEnum, value)
          IN conv' = Remember([fn |-> "try_from", str |-> value, tag |-> r.tag, err |-> r.err])
    /\ UNCHANGED <<cyclic, input, output, status, callee, env, selectors, taken, body, ip, tmp, trace,
                   err, iters>>

\* a caller converts a value of the enum into a string
CallFrom ==
    /\ output.state = "expanded"
    /\ \E t \in Tags :
          conv' = Remember([fn |-> "from", str |-> from(TheEnum, t), tag |-> Some(t), err |-> ""])
    /\ UNCHANGED <<cyclic, input, output, status, callee, env, selectors, taken, body, ip, tmp, trace,
                   err, iters>>

\* iter() handing out the position the latest iterator has reached
CallIter_resuming ==
    /\ output.state = "expanded"
    /\ Len(iters) < MaxIters
    /\ iters' = Append(iters, [next |-> IF iters = <<>> THEN 1 ELSE iters[Len(iters)].next,
                               yielded |-> <<>>, done |-> FALSE])
    /\ UNCHANGED <<cyclic, input, output, status, callee, env, selectors, taken, body, ip, tmp, trace,
                   err, conv>>

\* a caller calls iter(): members.iter() starts at the first element of the static array
CallIter ==
    /\ output.state = "expanded"
    /\ Len(iters) < MaxIters
    /\ iters' = Append(iters, [next |-> 1, yielded |-> <<>>, done |-> FALSE])
    /\ UNCHANGED <<cyclic, input, output, status, callee, env, selectors, taken, body, ip, tmp, trace,
                   err, conv>>

\* a caller asks one of the iterators for its next element
IterNext ==
    /\ output.state = "expanded"
    /\ \E i \in 1..Len(iters) :
          /\ ~iters[i].done
          /\ IF iters[i].next <= TheEnum.num_members
             THEN iters' = [iters EXCEPT
                              ![i].yielded =
                                  Append(@, TagEnum(TheEnum.ident,
                                                    TheEnum.members[iters[i].next])),
                              ![i].next = @ + 1]
             ELSE iters' = [iters EXCEPT ![i].done = TRUE]
    /\ UNCHANGED <<cyclic, input, output, status, callee, env, selectors, taken, body, ip, tmp, trace,
                   err, conv>>

NextEnum ==
    \/ invoke_impl
    \/ CallTryFrom
    \/ CallFrom
    \/ CallIter
    \/ IterNext

SpecEnum == InitEnum /\ [][NextEnum]_vars

\* the identifiers of the methods of the block
MemberNames == {Methods[k].sig.ident : k \in 1..Count}

\* the value of the enum that stands for the method called n
TagOf(n) == TagEnum(generate_enum_name(StructIdent, input.args.name), n)

(***************************************************************************)
(* C15: From<enum> for &str answers, for every value of the enum, the      *)
(* identifier of its method; try_from succeeds exactly on the identifiers  *)
(* of the methods, answers the value of that method, and fails with its    *)
(* error on every other string; try_from followed by from gives back the   *)
(* string, from followed by try_from gives back the value.                 *)
(***************************************************************************)
C15_TagStringBijection ==
    output.state = "expanded" =>
        /\ Tags = {TagOf(n) : n \in MemberNames}
        /\ \A i \in 1..Len(conv) :
              /\ conv[i].fn = "from" =>
                    /\ conv[i].str \in MemberNames
                    /\ conv[i].tag = Some(TagOf(conv[i].str))
              /\ conv[i].fn = "try_from" =>
                    IF conv[i].str \in MemberNames
                    THEN conv[i].tag = Some(TagOf(conv[i].str)) /\ conv[i].err = ""
                    ELSE conv[i].tag = None /\ conv[i].err = TheEnum.try_from_err
        /\ Len(conv) = 2 =>
              /\ (/\ conv[1].fn = "try_from"
                  /\ conv[2].fn = "from"
                  /\ is_some(conv[1].tag)
                  /\ conv[2].tag = conv[1].tag) => conv[2].str = conv[1].str
              /\ (/\ conv[1].fn = "from"
                  /\ conv[2].fn = "try_from"
                  /\ conv[2].str = conv[1].str) => conv[2].tag = conv[1].tag

\* the identifier of the last method was decoded and the value encoded again
C15_Witness ==
    /\ output.state = "expanded"
    /\ Count = MaxMembers
    /\ Len(conv) = 2
    /\ conv[1].fn = "try_from"
    /\ conv[1].str = Methods[Count].sig.ident
    /\ conv[2].fn = "from"
    /\ conv[2].tag = conv[1].tag
    /\ conv[2].str = conv[1].str

\* the values of the enum in the order the methods are declared
TagsInOrder == [k \in 1..Count |-> TagOf(Methods[k].sig.ident)]

(***************************************************************************)
(* C16: the enum has one variant per method of the block, and what any     *)
(* iterator returned by iter() has yielded so far is the beginning of the  *)
(* values in declaration order, all of them, each once, when the iterator  *)
(* has ended; this holds for every iterator whatever the other iterators   *)
(* have yielded.                                                           *)
(***************************************************************************)
C16_IterYieldsEachTagInOrder ==
    output.state = "expanded" =>
        /\ TheEnum.variants = DeclaredFns
        /\ Cardinality(Tags) = Count
        /\ \A i \in 1..Len(iters) :
              /\ Len(iters[i].yielded) <= Count
              /\ iters[i].yielded = SubSeq(TagsInOrder, 1, Len(iters[i].yielded))
              /\ iters[i].done => iters[i].yielded = TagsInOrder

\* an iterator was left after its first value and a later one ran to its end
C16_Witness ==
    /\ output.state = "expanded"
    /\ Count = MaxMembers
    /\ \E i, j \in 1..Len(iters) :
          /\ i < j
          /\ Len(iters[i].yielded) = 1
          /\ ~iters[i].done
          /\ iters[j].done
          /\ iters[j].yielded = TagsInOrder

\* the traits derived for the enum
Derived == {TheEnum.derives[k] : k \in 1..Len(TheEnum.derives)}

\* what a value of the enum can be used for, by the trait that allows it
SupportsCopy == {"Clone", "Copy"} \subseteq Derived
SupportsEquality == "PartialEq" \in Derived
SupportsPrinting == "Debug" \in Derived

MethodCount == output.items[Len(input.impl.items) + 7]
MethodList == output.items[Len(input.impl.items) + 8]

\* positions of the methods among the items the block was written with
DeclaredAt == {k \in 1..Len(input.impl.items) : input.impl.items[k].item = "Method"}

(***************************************************************************)
(* C18: METHOD_COUNT is the number of methods the block was written with,  *)
(* whatever other items it holds and not counting the six functions added; *)
(* METHOD_LIST has that many entries, the k-th being the identifier of the *)
(* k-th method; the enum has that many variants and the k-th entry of      *)
(* METHOD_LIST is the string From gives for the k-th variant.              *)
(***************************************************************************)
C18_CountAndListMatchMembers ==
    output.state = "expanded" =>
        /\ MethodCount.item = "Const" /\ MethodList.item = "Const"
        /\ MethodCount.value = <<Cardinality(DeclaredAt)>>
        /\ Len(MethodList.value) = MethodCount.value[1]
        /\ \A k \in 1..Len(MethodList.value) :
              /\ MethodList.value[k] = Methods[k].sig.ident
              /\ MethodList.value[k] = from(TheEnum, TagsInOrder[k])
        /\ Cardinality(Tags) = MethodCount.value[1]
        /\ TheEnum.num_members = MethodCount.value[1]

\* a full block that also holds a const item was expanded
C18_Witness ==
    /\ output.state = "expanded"
    /\ \E k \in 1..Len(input.impl.items) : input.impl.items[k].item = "Const"
    /\ MethodCount.value = <<MaxMembers>>
    /\ Len(output.items) = MaxMembers + 1 + 6 + 2

\* the identifiers an expansion adds to the type: the six functions, the two
\* constants and the enum; n is the number of items the block was written with
SynthesizedIdents(out, n) ==
    {out.items[n + k].sig.ident : k \in 1..6}
        \cup {out.items[n + 7].ident, out.items[n + 8].ident}
        \cup {unwrap(out.enum).ident}

\* what the same block gives when the attribute carries the name option nm
FamilyOf(nm) ==
    SynthesizedIdents(Expansion([input EXCEPT !.args.name = nm]), Len(input.impl.items))

(***************************************************************************)
(* C19: the nine identifiers an expansion adds are distinct; with a name   *)
(* they are the identifiers of the expansion without name followed by `_`  *)
(* and the name; and for every other name option the identifiers added for *)
(* the same type share none with those added here.                         *)
(***************************************************************************)
C19_FamiliesAreDisjoint ==
    output.state = "expanded" =>
        LET mine == SynthesizedIdents(output, Len(input.impl.items))
        IN /\ Cardinality(mine) = 9
           /\ is_some(input.args.name) =>
                 mine = {id \o "_" \o unwrap(input.args.name) : id \in FamilyOf(None)}
           /\ \A other \in FamilyNames \ {input.args.name} : FamilyOf(other) \cap mine = {}

(***************************************************************************)
(* C20: each of the six functions the expansion adds is `pub`, whatever    *)
(* the visibility of the methods of the block.                             *)
(***************************************************************************)
C20_DispatchersArePublic ==
    output.state = "expanded" => \A k \in 1..6 : Generated[k].vis = "pub"

\* the panics that come out of a method or of the closure
Raised == {"method panicked", "consumer panicked"}

LiveInputs ==
    {Input(None, None, UniformGroup(n, <<Receiver(TRUE)>>, ParamsCopy, <<>>, out)) :
        n \in 1..MaxMembers, out \in OutputTypes}

InitLive ==
    /\ input \in LiveInputs
    /\ output = Pending
    /\ status = "idle"
    /\ callee = <<>>
    /\ env = <<>>
    /\ selectors = <<>>
    /\ taken = 0
    /\ body = <<>>
    /\ ip = 1
    /\ tmp = None
    /\ trace = <<>>
    /\ err = ""
    /\ conv = <<>>
    /\ iters = <<>>
    /\ cyclic \in BOOLEAN

\* the call made in this step returned to the invoke function
Returns == err' \notin Raised

EvalInnerCallReturning == EvalInnerCall /\ Returns
CallConsumerReturning == CallConsumer /\ Returns

NextLive ==
    \/ invoke_impl
    \/ CallDispatcher
    \/ EvalInnerCallReturning
    \/ CallConsumerReturning
    \/ NextSelector
    \/ Return

\* the invoke function is sequential code: once called it goes on running
Fairness ==
    /\ WF_vars(EvalInnerCallReturning)
    /\ WF_vars(CallConsumerReturning)
    /\ WF_vars(NextSelector)
    /\ WF_vars(Return)

SpecLive == InitLive /\ [][NextLive]_vars /\ Fairness

\* the selectors never end and none of them is out of range
Endless == cyclic /\ selectors /= <<>> /\ AllValid

(***************************************************************************)
(* C22: when every call returns, a function that calls all the methods     *)
(* ends, having called as many methods as the block has; a function that   *)
(* takes selectors ends when the selectors end, or panics at a selector    *)
(* out of range, and in no other way: on selectors that start over for     *)
(* ever and are all in range it never ends and calls a method again and    *)
(* again.  It pulls one selector for each method it calls and has never    *)
(* pulled more than one selector beyond the methods called.                *)
(***************************************************************************)
C22_TerminatesIffSelectorsEnd ==
    /\ [](AllScope /\ status = "done" => Len(MemberCalls) = Count)
    /\ (AllScope /\ status = "running") ~> (status = "done")
    /\ (CallerSpecified /\ status = "running" /\ ~Endless) ~> (status \in {"done", "panicked"})
    /\ [](CallerSpecified /\ status = "done" => AllValid /\ ~Endless)
    /\ [](CallerSpecified /\ status = "panicked" => ~AllValid /\ err = InvalidIndexMsg)
    /\ [](CallerSpecified /\ Endless => status = "running")
    /\ <>[]~(CallerSpecified /\ Endless) \/ []<><<EvalInnerCall>>_vars
    /\ [](CallerSpecified => (Len(MemberCalls) <= taken /\ taken <= Len(MemberCalls) + 1))

\* selectors that start over were all pulled once and the function is still running
C22_Witness ==
    /\ CallerSpecified
    /\ Endless
    /\ Len(selectors) = MaxSelectors
    /\ Count = MaxMembers
    /\ status = "running"
    /\ taken = Len(selectors)
    /\ Len(MemberCalls) = taken
    /\ ip > Len(body)

====
